---- MODULE Spec2Model ----
(***************************************************************************)
(* Model of the Blender add-on "Duplicate with Children" (src/__init__.py). *)
(*                                                                         *)
(* The add-on's own code is the class OBJECT_OT_duplicate_with_children_base *)
(* (get_all_children, filter_selection, duplicate_with_selection_mapping)   *)
(* and the two operators built on it.  Everything it calls on bpy is the    *)
(* host; the host is modelled only as far as the add-on reads or writes it: *)
(* parent links, names, the three per-object hide flags, collection and     *)
(* layer-collection flags, the selection and the active object.             *)
(***************************************************************************)
EXTENDS Integers, Sequences, FiniteSets, TLC

\* Number of objects in the scene before the first invocation.
MaxNodes == 3

\* Room for the duplicates of every initial object (state-space cap only).
MaxObjects == 2 * MaxNodes

\* Python's None for an object reference (parent, active_object).
None == 0

Nodes == 1..MaxNodes
Ids == 1..MaxObjects

\* Python's None for a layer collection (find_layer_collection's miss).
NoLC == "none"

\* bpy collections of the scene: c0 is the scene's master collection, c1 and
\* c2 are nested below it, c3 is a collection not linked into the view layer.
Collections == {"c0", "c1", "c2", "c3"}
LayerCollections == {"L0", "L1", "L2"}

\* layer_collection.collection and layer_collection.children of the view layer.
lc_collection == [L0 |-> "c0", L1 |-> "c1", L2 |-> "c2"]
lc_children == [L0 |-> <<"L1">>, L1 |-> <<"L2">>, L2 |-> <<>>]

\* context.view_layer.layer_collection
view_layer_root == "L0"

VARIABLES
    scene,        \* the host's scene (see SceneDefault for its fields)
    mode,         \* context.mode
    locals,       \* locals of the last duplicate_with_selection_mapping call
    result,       \* <<result, error>> it returned
    report,       \* what the operator reported: <<level, message>>
    status,       \* what execute returned: FINISHED or CANCELLED
    ops_invoked,  \* bpy.ops operators the last invocation called
    last_op,      \* the operator invoked last
    call,         \* the method call of the last direct call (pure functions)
    ret           \* its return value

vars == <<scene, mode, locals, result, report, status, ops_invoked, last_op, call, ret>>

----------------------------------------------------------------------------
\* Helpers on sequences and sets.

Range(seq) == {seq[i] : i \in DOMAIN seq}

Min(S) == CHOOSE x \in S : \A y \in S : x <= y
Max(S) == CHOOSE x \in S : \A y \in S : y <= x

\* The host keeps objects in a fixed order (creation order); every host
\* sequence of objects (obj.children, context.selected_objects) follows it.
RECURSIVE HostOrder(_)
HostOrder(S) == IF S = {} THEN <<>> ELSE <<Min(S)>> \o HostOrder(S \ {Min(S)})

\* A Python dict: a function on its key set.  d[k] = v inserts or overwrites.
EmptyDict == <<>>
DictSet(d, k, v) == [x \in (DOMAIN d) \cup {k} |-> IF x = k THEN v ELSE d[x]]

----------------------------------------------------------------------------
\* The host scene.

SceneDefault ==
    [objects          |-> {},
     parent           |-> [n \in Ids |-> None],
     name             |-> [n \in Ids |-> 0],
     hide             |-> [n \in Ids |-> FALSE],
     hide_viewport    |-> [n \in Ids |-> FALSE],
     hide_select      |-> [n \in Ids |-> FALSE],
     users_collection |-> [n \in Ids |-> <<>>],
     data             |-> [n \in Ids |-> 0],
     origin           |-> [n \in Ids |-> None],
     selected         |-> {},
     active           |-> None,
     coll_hide_viewport |-> [c \in Collections |-> FALSE],
     coll_hide_select   |-> [c \in Collections |-> FALSE],
     lc_hide_viewport   |-> [l \in LayerCollections |-> FALSE],
     lc_exclude         |-> [l \in LayerCollections |-> FALSE]]

\* obj.children: the objects whose parent is obj, in host order.
children(s, obj) == HostOrder({c \in s.objects : s.parent[c] = obj})

\* obj.hide_get()
hide_get(s, obj) == s.hide[obj]

\* context.selected_objects
selected_objects(s) == HostOrder(s.selected)

----------------------------------------------------------------------------
\* get_all_children (src/__init__.py 19-26)

\* A plausible slip: a hidden child is skipped but its subtree is still walked.
RECURSIVE get_all_children_noprune(_, _, _), noprune_loop(_, _, _, _)
get_all_children_noprune(s, obj, include_hidden) ==
    noprune_loop(s, children(s, obj), 1, include_hidden)
noprune_loop(s, ch, i, include_hidden) ==
    IF i > Len(ch) THEN <<>>
    ELSE (IF include_hidden \/ ~hide_get(s, ch[i]) THEN <<ch[i]>> ELSE <<>>)
         \o get_all_children_noprune(s, ch[i], include_hidden)
         \o noprune_loop(s, ch, i + 1, include_hidden)

RECURSIVE get_all_children(_, _, _), children_loop(_, _, _, _)
get_all_children(s, obj, include_hidden) ==
    children_loop(s, children(s, obj), 1, include_hidden)

\* The for loop over obj.children, from its i-th element on.
children_loop(s, ch, i, include_hidden) ==
    IF i > Len(ch) THEN <<>>
    ELSE (IF include_hidden \/ ~hide_get(s, ch[i])
          THEN <<ch[i]>> \o get_all_children(s, ch[i], include_hidden)
          ELSE <<>>)
         \o children_loop(s, ch, i + 1, include_hidden)

----------------------------------------------------------------------------
\* filter_selection (src/__init__.py 28-44)

\* A plausible slip: only the direct parent is looked at.
parent_walk_direct(s, parent, selected) ==
    parent # None /\ parent \in Range(selected)

\* The while loop: walks parent, parent.parent, ... until one is selected.
RECURSIVE parent_walk(_, _, _)
parent_walk(s, parent, selected) ==
    IF parent = None THEN FALSE
    ELSE IF parent \in Range(selected) THEN TRUE
    ELSE parent_walk(s, s.parent[parent], selected)

is_child_of_selected(s, obj, selected) == parent_walk(s, s.parent[obj], selected)

RECURSIVE filter_loop(_, _, _)
filter_loop(s, selected, i) ==
    IF i > Len(selected) THEN <<>>
    ELSE (IF ~is_child_of_selected(s, selected[i], selected)
          THEN <<selected[i]>> ELSE <<>>)
         \o filter_loop(s, selected, i + 1)

filter_selection(s, selected) == filter_loop(s, selected, 1)

----------------------------------------------------------------------------
\* Host primitives the add-on calls (bpy).  The add-on's code is the only
\* source for them, so each is modelled by the least behaviour its call sites
\* rely on:
\*   - an object can be selected only while it is selectable: none of its own
\*     hide flags is set and one of its collections is visible and selectable
\*     in the view layer;
\*   - object.duplicate copies every selected object once, keeps the copies'
\*     flags, collections and relative parenting, names the copies in the
\*     name order of their originals, and leaves exactly the copies selected.

\* find_layer_collection (src/__init__.py 124-132)
RECURSIVE find_layer_collection(_, _), find_in_children(_, _, _)
find_layer_collection(layer_collection, target_collection) ==
    IF lc_collection[layer_collection] = target_collection THEN layer_collection
    ELSE find_in_children(lc_children[layer_collection], 1, target_collection)

\* Its for loop over layer_collection.children, from the i-th child on.
find_in_children(ch, i, target_collection) ==
    IF i > Len(ch) THEN NoLC
    ELSE LET r == find_layer_collection(ch[i], target_collection)
         IN  IF r # NoLC THEN r ELSE find_in_children(ch, i + 1, target_collection)

CollectionSelectable(s, c) ==
    LET lc == find_layer_collection(view_layer_root, c)
    IN  /\ lc # NoLC
        /\ ~s.coll_hide_viewport[c] /\ ~s.coll_hide_select[c]
        /\ ~s.lc_hide_viewport[lc] /\ ~s.lc_exclude[lc]

Selectable(s, obj) ==
    /\ obj \in s.objects
    /\ ~s.hide[obj] /\ ~s.hide_viewport[obj] /\ ~s.hide_select[obj]
    /\ \E c \in Range(s.users_collection[obj]) : CollectionSelectable(s, c)

\* bpy.ops.object.select_all(action='DESELECT')
select_all_deselect(s) == [s EXCEPT !.selected = {}]

\* obj.select_set(state)
select_set(s, obj, state) ==
    IF state
    THEN IF Selectable(s, obj) THEN [s EXCEPT !.selected = @ \cup {obj}] ELSE s
    ELSE [s EXCEPT !.selected = @ \ {obj}]

\* obj.hide_set(state)
hide_set(s, obj, state) == [s EXCEPT !.hide[obj] = state]

\* bpy.ops.object.duplicate(linked=linked_data)
duplicate(s, linked_data) ==
    LET src   == HostOrder(s.selected)
        base  == IF s.objects = {} THEN 0 ELSE Max(s.objects)
        top   == IF s.objects = {} THEN 0 ELSE Max({s.name[o] : o \in s.objects})
        pos(o)  == CHOOSE i \in DOMAIN src : src[i] = o
        new(o)  == base + pos(o)
        rank(o) == Cardinality({m \in s.selected : s.name[m] <= s.name[o]})
        fresh == {base + i : i \in DOMAIN src}
        from(n) == src[n - base]
    IN  [s EXCEPT
           !.objects  = @ \cup fresh,
           !.parent   = [n \in Ids |-> IF n \in fresh
                            THEN IF s.parent[from(n)] \in s.selected
                                 THEN new(s.parent[from(n)])
                                 ELSE s.parent[from(n)]
                            ELSE @[n]],
           !.name     = [n \in Ids |-> IF n \in fresh THEN top + rank(from(n)) ELSE @[n]],
           !.hide     = [n \in Ids |-> IF n \in fresh THEN s.hide[from(n)] ELSE @[n]],
           !.hide_viewport = [n \in Ids |-> IF n \in fresh THEN s.hide_viewport[from(n)] ELSE @[n]],
           !.hide_select   = [n \in Ids |-> IF n \in fresh THEN s.hide_select[from(n)] ELSE @[n]],
           !.users_collection = [n \in Ids |-> IF n \in fresh THEN s.users_collection[from(n)] ELSE @[n]],
           !.data     = [n \in Ids |-> IF n \in fresh
                            THEN IF linked_data THEN s.data[from(n)] ELSE n
                            ELSE @[n]],
           !.origin   = [n \in Ids |-> IF n \in fresh THEN from(n) ELSE @[n]],
           !.selected = fresh,
           !.active   = IF s.active \in s.selected THEN new(s.active) ELSE @]

\* sorted(objects, key=lambda obj: obj.name): a stable sort.
RECURSIVE insert_by_name(_, _, _)
insert_by_name(s, sorted, x) ==
    IF sorted = <<>> THEN <<x>>
    ELSE IF s.name[sorted[Len(sorted)]] <= s.name[x] THEN Append(sorted, x)
    ELSE Append(insert_by_name(s, SubSeq(sorted, 1, Len(sorted) - 1), x), sorted[Len(sorted)])

RECURSIVE sort_loop(_, _, _, _)
sort_loop(s, objs, i, acc) ==
    IF i > Len(objs) THEN acc ELSE sort_loop(s, objs, i + 1, insert_by_name(s, acc, objs[i]))

sorted_by_name(s, objs) == sort_loop(s, objs, 1, <<>>)

----------------------------------------------------------------------------
\* duplicate_with_selection_mapping (src/__init__.py 82-207)

\* Lines 92-96: every selected object followed by all its children.
RECURSIVE collect_loop(_, _, _)
collect_loop(s, original_selection, i) ==
    IF i > Len(original_selection) THEN <<>>
    ELSE <<original_selection[i]>>
         \o get_all_children(s, original_selection[i], TRUE)
         \o collect_loop(s, original_selection, i + 1)

\* The frame of one call: the scene it works on (s) and its locals.
NoLocals ==
    [original_selection |-> <<>>,
     original_active |-> None,
     all_objects_to_duplicate |-> <<>>,
     original_object_hide_states |-> EmptyDict,
     original_collection_hide_states |-> EmptyDict,
     original_layer_collection_hide_states |-> EmptyDict,
     duplicated_objects |-> <<>>,
     original_to_duplicated |-> EmptyDict]

Frame(s, loc) ==
    [s |-> s,
     original_selection |-> loc.original_selection,
     original_active |-> loc.original_active,
     all_objects_to_duplicate |-> loc.all_objects_to_duplicate,
     original_object_hide_states |-> loc.original_object_hide_states,
     original_collection_hide_states |-> loc.original_collection_hide_states,
     original_layer_collection_hide_states |-> loc.original_layer_collection_hide_states,
     duplicated_objects |-> loc.duplicated_objects,
     original_to_duplicated |-> loc.original_to_duplicated]

LocalsOf(f) ==
    [original_selection |-> f.original_selection,
     original_active |-> f.original_active,
     all_objects_to_duplicate |-> f.all_objects_to_duplicate,
     original_object_hide_states |-> f.original_object_hide_states,
     original_collection_hide_states |-> f.original_collection_hide_states,
     original_layer_collection_hide_states |-> f.original_layer_collection_hide_states,
     duplicated_objects |-> f.duplicated_objects,
     original_to_duplicated |-> f.original_to_duplicated]

\* Lines 104-111: record the object's three flags, then clear them.
store_object_state(st, obj) ==
    [st EXCEPT
       !.original_object_hide_states =
           DictSet(@, obj, [hide_get |-> hide_get(st.s, obj),
                            hide_viewport |-> st.s.hide_viewport[obj],
                            hide_select |-> st.s.hide_select[obj]]),
       !.s = [hide_set(st.s, obj, FALSE) EXCEPT !.hide_viewport[obj] = FALSE,
                                                !.hide_select[obj] = FALSE]]

\* A plausible slip: the collection is recorded on every visit, so a second
\* visit records the flags the first visit has already cleared.
store_collection_state_always(st, collection) ==
    [st EXCEPT
       !.original_collection_hide_states =
           DictSet(@, collection,
                   [hide_viewport |-> st.s.coll_hide_viewport[collection],
                    hide_select |-> st.s.coll_hide_select[collection]]),
       !.s = [@ EXCEPT !.coll_hide_viewport[collection] = FALSE,
                       !.coll_hide_select[collection] = FALSE]]

\* Lines 115-121: record a collection's flags once, then clear them.
store_collection_state(st, collection) ==
    IF collection \notin DOMAIN st.original_collection_hide_states
    THEN [st EXCEPT
            !.original_collection_hide_states =
                DictSet(@, collection,
                        [hide_viewport |-> st.s.coll_hide_viewport[collection],
                         hide_select |-> st.s.coll_hide_select[collection]]),
            !.s = [@ EXCEPT !.coll_hide_viewport[collection] = FALSE,
                            !.coll_hide_select[collection] = FALSE]]
    ELSE st

\* Lines 134-141: the same for the collection's layer collection, if any.
store_layer_collection_state(st, collection) ==
    LET layer_collection == find_layer_collection(view_layer_root, collection)
    IN  IF /\ layer_collection # NoLC
           /\ layer_collection \notin DOMAIN st.original_layer_collection_hide_states
        THEN [st EXCEPT
                !.original_layer_collection_hide_states =
                    DictSet(@, layer_collection,
                            [hide_viewport |-> st.s.lc_hide_viewport[layer_collection],
                             exclude |-> st.s.lc_exclude[layer_collection]]),
                !.s = [@ EXCEPT !.lc_hide_viewport[layer_collection] = FALSE,
                                !.lc_exclude[layer_collection] = FALSE]]
        ELSE st

\* Lines 114-141: the for loop over obj.users_collection, from the j-th on.
RECURSIVE users_collection_loop(_, _, _)
users_collection_loop(st, colls, j) ==
    IF j > Len(colls) THEN st
    ELSE users_collection_loop(
             store_layer_collection_state(store_collection_state(st, colls[j]), colls[j]),
             colls, j + 1)

\* Lines 103-141: the for loop over all_objects_to_duplicate, from the i-th on.
RECURSIVE unhide_loop(_, _, _)
unhide_loop(st, all_objects_to_duplicate, i) ==
    IF i > Len(all_objects_to_duplicate) THEN st
    ELSE LET obj == all_objects_to_duplicate[i]
             st1 == store_object_state(st, obj)
         IN  unhide_loop(users_collection_loop(st1, st1.s.users_collection[obj], 1),
                         all_objects_to_duplicate, i + 1)

\* Lines 145-146: select every object to duplicate.
RECURSIVE select_loop(_, _, _)
select_loop(s, all_objects_to_duplicate, i) ==
    IF i > Len(all_objects_to_duplicate) THEN s
    ELSE select_loop(select_set(s, all_objects_to_duplicate[i], TRUE),
                     all_objects_to_duplicate, i + 1)

\* Lines 165-167: the dict built from zip(originals, duplicates); a later pair
\* with the same original overwrites the earlier one.
RECURSIVE zip_loop(_, _, _, _)
zip_loop(origs, dups, i, d) ==
    IF i > Len(origs) \/ i > Len(dups) THEN d
    ELSE zip_loop(origs, dups, i + 1, DictSet(d, origs[i], dups[i]))

\* Lines 171-178: the recorded flags of one original, set on it and its duplicate.
apply_hide_state(s, orig_obj, dup_obj, hide_state) ==
    LET s1 == hide_set(hide_set(s, orig_obj, hide_state.hide_get), dup_obj, hide_state.hide_get)
    IN  [s1 EXCEPT !.hide_viewport[orig_obj] = hide_state.hide_viewport,
                   !.hide_viewport[dup_obj]  = hide_state.hide_viewport,
                   !.hide_select[orig_obj]   = hide_state.hide_select,
                   !.hide_select[dup_obj]    = hide_state.hide_select]

\* Lines 170-178: the for loop over original_to_duplicated.items().
RECURSIVE restore_objects_loop(_, _, _, _, _)
restore_objects_loop(s, keys, i, original_to_duplicated, original_object_hide_states) ==
    IF i > Len(keys) THEN s
    ELSE LET orig_obj == keys[i]
             s1 == IF orig_obj \in DOMAIN original_object_hide_states
                   THEN apply_hide_state(s, orig_obj, original_to_duplicated[orig_obj],
                                         original_object_hide_states[orig_obj])
                   ELSE s
         IN  restore_objects_loop(s1, keys, i + 1, original_to_duplicated,
                                  original_object_hide_states)

\* Lines 181-183
restore_collection_states(s, states) ==
    [s EXCEPT
       !.coll_hide_viewport = [c \in Collections |->
            IF c \in DOMAIN states THEN states[c].hide_viewport ELSE @[c]],
       !.coll_hide_select = [c \in Collections |->
            IF c \in DOMAIN states THEN states[c].hide_select ELSE @[c]]]

\* Lines 186-188
restore_layer_collection_states(s, states) ==
    [s EXCEPT
       !.lc_hide_viewport = [l \in LayerCollections |->
            IF l \in DOMAIN states THEN states[l].hide_viewport ELSE @[l]],
       !.lc_exclude = [l \in LayerCollections |->
            IF l \in DOMAIN states THEN states[l].exclude ELSE @[l]]]

\* Lines 194-198: deselect each original, select its duplicate.
RECURSIVE reselect_loop(_, _, _, _)
reselect_loop(s, original_selection, i, original_to_duplicated) ==
    IF i > Len(original_selection) THEN s
    ELSE LET orig_obj == original_selection[i]
             s1 == select_set(s, orig_obj, FALSE)
             s2 == IF orig_obj \in DOMAIN original_to_duplicated
                   THEN select_set(s1, original_to_duplicated[orig_obj], TRUE)
                   ELSE s1
         IN  reselect_loop(s2, original_selection, i + 1, original_to_duplicated)

NoValidObjects == "No valid objects selected"

\* Python's None for the error message of the returned pair.
NoError == "None"



\* A plausible slip: the guard is missing.
no_selection_never(original_selection) == FALSE

\* Line 88: if not original_selection
no_selection(original_selection) == original_selection = <<>>

\* Lines 85-86
store_selection(s) ==
    Frame(s, [NoLocals EXCEPT !.original_selection = selected_objects(s),
                              !.original_active = s.active])

\* Lines 92-96
collect_objects(f) ==
    [f EXCEPT !.all_objects_to_duplicate = collect_loop(f.s, f.original_selection, 1)]

\* Lines 98-141
unhide_all(f) == unhide_loop(f, f.all_objects_to_duplicate, 1)

\* Lines 144-146
select_objects_to_duplicate(f) ==
    [f EXCEPT !.s = select_loop(select_all_deselect(@), f.all_objects_to_duplicate, 1)]

\* Line 149
set_active_first(f) == [f EXCEPT !.s.active = f.original_selection[1]]

\* Lines 152-158
duplicate_all(f, linked_data) ==
    LET s5 == duplicate(f.s, linked_data)
    IN  [f EXCEPT !.s = s5, !.duplicated_objects = selected_objects(s5)]

\* Lines 161-167
build_mapping(f) ==
    [f EXCEPT !.original_to_duplicated =
        zip_loop(sorted_by_name(f.s, f.all_objects_to_duplicate),
                 sorted_by_name(f.s, f.duplicated_objects), 1, EmptyDict)]

\* Lines 170-178
restore_objects(f) ==
    [f EXCEPT !.s = restore_objects_loop(@, HostOrder(DOMAIN f.original_to_duplicated), 1,
                                         f.original_to_duplicated,
                                         f.original_object_hide_states)]

\* Lines 181-188
restore_collections(f) ==
    [f EXCEPT !.s = restore_layer_collection_states(
                        restore_collection_states(@, f.original_collection_hide_states),
                        f.original_layer_collection_hide_states)]

\* Lines 191-198
apply_selection_pattern(f) ==
    [f EXCEPT !.s = reselect_loop(select_all_deselect(@), f.original_selection, 1,
                                  f.original_to_duplicated)]

\* Lines 201-202
set_active_duplicate(f) ==
    IF f.original_active # None /\ f.original_active \in DOMAIN f.original_to_duplicated
    THEN [f EXCEPT !.s.active = f.original_to_duplicated[f.original_active]]
    ELSE f

\* Lines 91-146, up to the first statement that needs a non-empty selection.
prepare(s) == select_objects_to_duplicate(unhide_all(collect_objects(store_selection(s))))

\* Lines 149-202
complete(f, linked_data) ==
    set_active_duplicate(apply_selection_pattern(restore_collections(restore_objects(
        build_mapping(duplicate_all(set_active_first(f), linked_data))))))

\* What the call hands back: the scene it leaves, its return value, the
\* bpy.ops operators it invoked, its locals, and whether it raised instead of
\* returning (original_selection[0] at line 149 raises IndexError on an empty
\* list).
Returned(f, res, ops) ==
    [scene |-> f.s, result |-> res, raised |-> FALSE, ops |-> ops, locals |-> LocalsOf(f)]

Raised(f, ops) ==
    [scene |-> f.s, result |-> <<None, NoError>>, raised |-> TRUE, ops |-> ops,
     locals |-> LocalsOf(f)]

\* Lines 149-207.  Line 149 indexes original_selection: on an empty list it
\* raises, and nothing after it runs.
from_line_149(f, linked_data) ==
    IF f.original_selection = <<>>
    THEN Raised(f, {"object.select_all"})
    ELSE Returned(complete(f, linked_data), <<Len(f.original_selection), NoError>>,
                  {"object.select_all", "object.duplicate", "transform.translate"})

duplicate_with_selection_mapping(s, linked_data) ==
    IF no_selection(selected_objects(s))
    THEN Returned(store_selection(s), <<None, NoValidObjects>>, {})
    ELSE from_line_149(prepare(s), linked_data)

----------------------------------------------------------------------------
\* The two operators (src/__init__.py 209-247)

NoReport == [level |-> "NONE", text |-> "", count |-> None]

\* poll (lines 215-217 and 235-237)
poll(s, m) == s.active # None /\ m = "OBJECT"

\* execute (lines 219-227 and 239-247); linked_data tells the two apart.
execute(s, linked_data) ==
    LET r == duplicate_with_selection_mapping(s, linked_data)
        error == r.result[2]
    IN  [call   |-> r,
         report |-> IF r.raised THEN NoReport
                    ELSE IF error # NoError
                    THEN [level |-> "WARNING", text |-> error, count |-> None]
                    ELSE [level |-> "INFO",
                          text |-> IF linked_data
                                   THEN "Duplicated object(s) with children (linked)"
                                   ELSE "Duplicated object(s) with children",
                          count |-> r.result[1]],
         status |-> IF r.raised THEN "RAISED"
                    ELSE IF error # NoError THEN "CANCELLED" ELSE "FINISHED"]

\* State-space cap: the duplicates must fit into Ids.
Fits(s) ==
    Cardinality(s.objects) + Cardinality(Range(collect_loop(s, selected_objects(s), 1)))
        <= MaxObjects

\* The effect of one invocation on the state.
Run(linked_data, idname) ==
    \E e \in {execute(scene, linked_data)} :
        /\ scene' = e.call.scene
        /\ locals' = e.call.locals
        /\ result' = e.call.result
        /\ ops_invoked' = e.call.ops
        /\ report' = e.report
        /\ status' = e.status
        /\ last_op' = idname
        /\ UNCHANGED <<mode, call, ret>>

\* OBJECT_OT_duplicate_with_children_cloned
ExecuteCloned ==
    /\ poll(scene, mode)
    /\ Fits(scene)
    /\ Run(FALSE, "object.duplicate_with_children_cloned")

\* OBJECT_OT_duplicate_with_children_linked
ExecuteLinked ==
    /\ poll(scene, mode)
    /\ Fits(scene)
    /\ Run(TRUE, "object.duplicate_with_children_linked")

----------------------------------------------------------------------------
\* Scenes the operators can be invoked on.

\* Parent links of the initial objects: every forest, up to renumbering
\* (a parent was created before its children).
Forests == {p \in [Nodes -> Nodes \cup {None}] : \A n \in Nodes : p[n] < n}

\* Object names are unique; they follow creation order or reverse it.
NameOrders == {[n \in Nodes |-> n], [n \in Nodes |-> MaxNodes + 1 - n]}

\* Hide flags an object may carry: one of the three, or all of them.
FlagKinds ==
    {[hide |-> TRUE,  hide_viewport |-> FALSE, hide_select |-> FALSE],
     [hide |-> FALSE, hide_viewport |-> TRUE,  hide_select |-> FALSE],
     [hide |-> FALSE, hide_viewport |-> FALSE, hide_select |-> TRUE],
     [hide |-> TRUE,  hide_viewport |-> TRUE,  hide_select |-> TRUE]}

\* Collection membership: objects before k are in c1, objects after k in c2,
\* object k in both (k = 0: all in c2); or everything in the master
\* collection, the first object also in the unlinked collection c3.
Memberships ==
    {[n \in Nodes |-> IF n < k THEN <<"c1">> ELSE IF n = k THEN <<"c1", "c2">> ELSE <<"c2">>]
        : k \in {0, 1, MaxNodes}}
    \cup {[n \in Nodes |-> IF n = 1 THEN <<"c3", "c0">> ELSE <<"c0">>]}

DefaultMembership == [n \in Nodes |-> IF n = MaxNodes THEN <<"c1", "c2">> ELSE <<"c1">>]

\* Collection flags: at most one collection is flagged, with one of its four
\* flags (two on the collection, two on its layer collection) or all four.
CollFlagKinds ==
    {[hide_viewport |-> TRUE,  hide_select |-> FALSE, lc_hide_viewport |-> FALSE, exclude |-> FALSE],
     [hide_viewport |-> FALSE, hide_select |-> TRUE,  lc_hide_viewport |-> FALSE, exclude |-> FALSE],
     [hide_viewport |-> FALSE, hide_select |-> FALSE, lc_hide_viewport |-> TRUE,  exclude |-> FALSE],
     [hide_viewport |-> FALSE, hide_select |-> FALSE, lc_hide_viewport |-> FALSE, exclude |-> TRUE],
     [hide_viewport |-> TRUE,  hide_select |-> TRUE,  lc_hide_viewport |-> TRUE,  exclude |-> TRUE]}

NoCollFlags ==
    [hide_viewport |-> FALSE, hide_select |-> FALSE, lc_hide_viewport |-> FALSE, exclude |-> FALSE]

LinkedCollections == {"c0", "c1", "c2"}

\* The scene with the given parents, names, flagged objects, memberships and
\* flagged collection; nothing selected, no active object.
MakeScene(p, nm, H, fk, mem, fc, ck) ==
    [SceneDefault EXCEPT
       !.objects  = Nodes,
       !.parent   = [n \in Ids |-> IF n \in Nodes THEN p[n] ELSE None],
       !.name     = [n \in Ids |-> IF n \in Nodes THEN nm[n] ELSE 0],
       !.hide     = [n \in Ids |-> n \in H /\ fk.hide],
       !.hide_viewport = [n \in Ids |-> n \in H /\ fk.hide_viewport],
       !.hide_select   = [n \in Ids |-> n \in H /\ fk.hide_select],
       !.users_collection = [n \in Ids |-> IF n \in Nodes THEN mem[n] ELSE <<>>],
       !.data     = [n \in Ids |-> IF n \in Nodes THEN n ELSE 0],
       !.coll_hide_viewport = [c \in Collections |-> c = fc /\ ck.hide_viewport],
       !.coll_hide_select   = [c \in Collections |-> c = fc /\ ck.hide_select],
       !.lc_hide_viewport   = [l \in LayerCollections |->
                                   lc_collection[l] = fc /\ ck.lc_hide_viewport],
       !.lc_exclude         = [l \in LayerCollections |-> lc_collection[l] = fc /\ ck.exclude]]

NoFlags == [hide |-> FALSE, hide_viewport |-> FALSE, hide_select |-> FALSE]

CreationOrder == [n \in Nodes |-> n]

\* Scenes whose objects carry hide flags; collections all visible.
ObjectFlagScenes ==
    {MakeScene(p, nm, H, fk, DefaultMembership, "c1", NoCollFlags) :
        p \in Forests, nm \in NameOrders, H \in SUBSET Nodes, fk \in FlagKinds}

\* Scenes without flags, in either name order.
PlainScenes ==
    {MakeScene(p, nm, {}, NoFlags, DefaultMembership, "c1", NoCollFlags) :
        p \in Forests, nm \in NameOrders}

\* Scenes whose collections carry flags; objects all unflagged.
CollectionFlagScenes ==
    {MakeScene(p, CreationOrder, {}, NoFlags, mem, fc, ck) :
        p \in Forests, mem \in Memberships, fc \in LinkedCollections, ck \in CollFlagKinds}

\* The host lists an object as selected only while it is selectable.
WithSelection(s, sel, act) == [s EXCEPT !.selected = sel, !.active = act]

NoRun ==
    /\ locals = NoLocals
    /\ result = <<None, NoError>>
    /\ report = NoReport
    /\ status = "NONE"
    /\ ops_invoked = {}
    /\ last_op = "none"

NotReturned == [done |-> FALSE, value |-> <<>>]

NoCall ==
    /\ call = [op |-> "none", args |-> <<>>]
    /\ ret = NotReturned

\* The selections the host can report on scene s.
SelectableSets(s) == SUBSET {n \in Nodes : Selectable(s, n)}

Init ==
    /\ \/ /\ mode = "OBJECT"
          /\ \E s \in ObjectFlagScenes \cup CollectionFlagScenes, sel \in SUBSET Nodes :
               /\ sel \in SelectableSets(s)
               /\ scene = WithSelection(s, sel, 1)
       \/ /\ mode = "OBJECT"
          /\ \E s \in PlainScenes, sel \in SUBSET Nodes, act \in Nodes \cup {None} :
               scene = WithSelection(s, sel, act)
       \/ /\ mode = "EDIT_MESH"
          /\ \E s \in PlainScenes, sel \in SUBSET Nodes :
               scene = WithSelection(s, sel, 1)
    /\ NoRun
    /\ NoCall

Next == ExecuteCloned \/ ExecuteLinked

Spec == Init /\ [][Next]_vars

----------------------------------------------------------------------------
\* Direct calls of the two pure methods, on forests of MaxTreeNodes objects.

MaxTreeNodes == 4

TreeNodes == 1..MaxTreeNodes

TreeForests == {p \in [TreeNodes -> TreeNodes \cup {None}] : \A n \in TreeNodes : p[n] < n}

\* The scene with the given parents and the objects of H hidden.
MakeTree(p, H) ==
    [SceneDefault EXCEPT
       !.objects = TreeNodes,
       !.parent  = [n \in Ids |-> IF n \in TreeNodes THEN p[n] ELSE None],
       !.name    = [n \in Ids |-> IF n \in TreeNodes THEN n ELSE 0],
       !.hide    = [n \in Ids |-> n \in H],
       !.users_collection = [n \in Ids |-> IF n \in TreeNodes THEN <<"c1">> ELSE <<>>],
       !.data    = [n \in Ids |-> IF n \in TreeNodes THEN n ELSE 0]]

\* Lists of distinct objects, in any order: the selections a caller can pass.
Selections ==
    {sel \in UNION {[1..k -> TreeNodes] : k \in 0..MaxTreeNodes} :
        \A i, j \in DOMAIN sel : i # j => sel[i] # sel[j]}

InitFn ==
    /\ mode = "OBJECT"
    /\ NoRun
    /\ ret = NotReturned
    /\ \/ \E p \in TreeForests, sel \in Selections :
            /\ scene = MakeTree(p, {})
            /\ call = [op |-> "filter_selection", args |-> <<sel>>]
       \/ \E p \in TreeForests, H \in SUBSET TreeNodes, obj \in TreeNodes, inc \in BOOLEAN :
            /\ scene = MakeTree(p, H)
            /\ call = [op |-> "get_all_children", args |-> <<obj, inc>>]

CallFilterSelection ==
    /\ call.op = "filter_selection"
    /\ ~ret.done
    /\ ret' = [done |-> TRUE, value |-> filter_selection(scene, call.args[1])]
    /\ UNCHANGED <<scene, mode, locals, result, report, status, ops_invoked, last_op, call>>

CallGetAllChildren ==
    /\ call.op = "get_all_children"
    /\ ~ret.done
    /\ ret' = [done |-> TRUE, value |-> get_all_children(scene, call.args[1], call.args[2])]
    /\ UNCHANGED <<scene, mode, locals, result, report, status, ops_invoked, last_op, call>>

NextFn == CallFilterSelection \/ CallGetAllChildren

SpecFn == InitFn /\ [][NextFn]_vars

----------------------------------------------------------------------------
\* Vocabulary of the properties, defined from the parent links alone.

\* The proper ancestors of n: the closure of the parent link.
AncestorsOf(s, n) ==
    LET up[k \in 0..MaxObjects] ==
            IF k = 0 THEN {s.parent[n]} \ {None}
            ELSE up[k - 1] \cup ({s.parent[a] : a \in up[k - 1]} \ {None})
    IN  up[MaxObjects]

DescendantsOf(s, n) == {d \in s.objects : n \in AncestorsOf(s, d)}

\* The selected objects and all their descendants.
DuplicatedSet(s) == s.selected \cup UNION {DescendantsOf(s, n) : n \in s.selected}

\* Objects a step created.
Created == scene'.objects \ scene.objects

\* The copy the host made of n in this step.
CopyOf(n) == CHOOSE d \in Created : scene'.origin[d] = n

Flags(s, n) == <<s.hide[n], s.hide_viewport[n], s.hide_select[n]>>

NoRepeats(seq) == \A i, j \in DOMAIN seq : i # j => seq[i] # seq[j]

PositionIn(seq, x) == CHOOSE i \in DOMAIN seq : seq[i] = x

----------------------------------------------------------------------------
\* C8: filter_selection(S) is a subsequence of S in S's order, no returned
\* element has an ancestor (at any depth) in S, and every element of S is
\* returned or has an ancestor in S.
C8_FilterTopLevel ==
    (call.op = "filter_selection" /\ ret.done) =>
        LET S == call.args[1]
            R == ret.value
        IN  /\ NoRepeats(R)
            /\ Range(R) \subseteq Range(S)
            /\ \A i, j \in DOMAIN R : i < j => PositionIn(S, R[i]) < PositionIn(S, R[j])
            /\ \A r \in Range(R) : AncestorsOf(scene, r) \cap Range(S) = {}
            /\ \A x \in Range(S) : x \in Range(R) \/ AncestorsOf(scene, x) \cap Range(S) # {}

\* A call that dropped an object whose parent is not selected but whose
\* grandparent is, and returned two objects in the caller's (non-host) order.
C8_Witness ==
    /\ call.op = "filter_selection" /\ ret.done
    /\ \E x \in Range(call.args[1]) :
         /\ x \notin Range(ret.value)
         /\ scene.parent[x] \notin Range(call.args[1])
    /\ Len(ret.value) = 2 /\ ret.value[1] > ret.value[2]

\* C9: get_all_children(root, include_hidden) lists, each once and parent
\* before child, exactly the descendants of root (include_hidden) or exactly
\* the descendants that are not hidden and have no hidden ancestor below root
\* (otherwise); never root itself.
C9_CollectDescendants ==
    (call.op = "get_all_children" /\ ret.done) =>
        LET root == call.args[1]
            include_hidden == call.args[2]
            R == ret.value
            Between(d) == {a \in AncestorsOf(scene, d) : root \in AncestorsOf(scene, a)}
            Expected == {d \in DescendantsOf(scene, root) :
                            include_hidden \/ (~scene.hide[d] /\ \A a \in Between(d) : ~scene.hide[a])}
        IN  /\ NoRepeats(R)
            /\ Range(R) = Expected
            /\ root \notin Range(R)
            /\ \A i \in DOMAIN R :
                 \/ scene.parent[R[i]] = root
                 \/ \E j \in 1..(i - 1) : R[j] = scene.parent[R[i]]

\* A call without hidden objects that pruned a visible object below a hidden
\* one and still returned something.
C9_Witness ==
    /\ call.op = "get_all_children" /\ ret.done /\ ~call.args[2]
    /\ ret.value # <<>>
    /\ \E d \in DescendantsOf(scene, call.args[1]) :
         /\ ~scene.hide[d]
         /\ d \notin Range(ret.value)

----------------------------------------------------------------------------
\* Properties of one invocation.  Every step of Spec is one invocation of an
\* operator, so "after a successful invocation" is a property of the steps
\* that end with status FINISHED: unprimed is before, primed is after.

Succeeds == status' = "FINISHED"

\* No selected object has a selected ancestor.
NoNestedSelection(s) == \A n \in s.selected : AncestorsOf(s, n) \cap s.selected = {}

\* C1: after a successful invocation every object of the duplicated set has
\* the three hide flags it had before, and its duplicate carries them too.
C1_HideFlagsPreserved ==
    [][Succeeds =>
         \A n \in DuplicatedSet(scene) :
            /\ Flags(scene', n) = Flags(scene, n)
            /\ \E d \in Created : scene'.origin[d] = n
            /\ Flags(scene', CopyOf(n)) = Flags(scene, n)]_vars

\* C2: after a successful invocation the selection is exactly the duplicates
\* of the objects the caller had selected.
C2_SelectionMovesToDuplicates ==
    [][Succeeds =>
         scene'.selected = {d \in Created : scene'.origin[d] \in scene.selected}]_vars

\* C3: the top-level set the invocation works on is filter_selection of the
\* caller's selection, and exactly one object is created for each object of
\* the selected subtrees.
C3_FilteredAndCopiedOnce ==
    [][Succeeds =>
         /\ locals'.original_selection = filter_selection(scene, selected_objects(scene))
         /\ {scene'.origin[d] : d \in Created} = DuplicatedSet(scene)
         /\ Cardinality(Created) = Cardinality(DuplicatedSet(scene))]_vars

\* C4: the count returned (and reported) by a successful invocation is the
\* size of filter_selection of the caller's selection.
C4_CountIsTopLevel ==
    [][Succeeds =>
         /\ result'[1] = Len(filter_selection(scene, selected_objects(scene)))
         /\ report'.count = result'[1]]_vars

\* C5: an invocation on an empty selection returns the no-selection error,
\* reports a warning, ends CANCELLED, invokes no host operator and leaves the
\* whole scene (objects, flags, selection, active object) as it was.
C5_EmptySelectionNoMutation ==
    [][scene.selected = {} =>
         /\ result' = <<None, NoValidObjects>>
         /\ report' = [level |-> "WARNING", text |-> NoValidObjects, count |-> None]
         /\ status' = "CANCELLED"
         /\ ops_invoked' = {}
         /\ scene' = scene]_vars

\* The linked operator was cancelled on a scene with objects (one of them
\* hidden), an active object and nothing selected.
C5_Witness ==
    /\ status = "CANCELLED"
    /\ last_op = "object.duplicate_with_children_linked"
    /\ scene.selected = {}
    /\ scene.active # None
    /\ \E n \in scene.objects : scene.hide[n]

\* C6: after a successful invocation the active object is the duplicate of
\* the object that was active before, if that object was duplicated.
C6_ActiveMovesToDuplicate ==
    [][(Succeeds /\ scene.active \in DuplicatedSet(scene)) =>
         /\ scene'.active \in Created
         /\ scene'.origin[scene'.active] = scene.active]_vars

\* C7: after a successful invocation every collection's and every layer
\* collection's flags are what they were before.
C7_CollectionFlagsRestored ==
    [][Succeeds =>
         /\ scene'.coll_hide_viewport = scene.coll_hide_viewport
         /\ scene'.coll_hide_select = scene.coll_hide_select
         /\ scene'.lc_hide_viewport = scene.lc_hide_viewport
         /\ scene'.lc_exclude = scene.lc_exclude]_vars

\* A successful invocation recorded (and so cleared) a collection whose four
\* flags were set and are set again, which two duplicated objects share, one
\* of them a member of a second collection.
C7_Witness ==
    /\ status = "FINISHED"
    /\ \E c \in DOMAIN locals.original_collection_hide_states :
         LET lc == find_layer_collection(view_layer_root, c)
             members == {o \in Range(locals.all_objects_to_duplicate) :
                            c \in Range(scene.users_collection[o])}
         IN  /\ locals.original_collection_hide_states[c].hide_viewport
             /\ locals.original_collection_hide_states[c].hide_select
             /\ lc \in DOMAIN locals.original_layer_collection_hide_states
             /\ locals.original_layer_collection_hide_states[lc].exclude
             /\ scene.coll_hide_viewport[c] /\ scene.coll_hide_select[c]
             /\ scene.lc_hide_viewport[lc] /\ scene.lc_exclude[lc]
             /\ Cardinality(members) >= 2
             /\ \E o \in members : Len(scene.users_collection[o]) >= 2

\* C10: the dict built by sorting and zipping maps every object of the
\* duplicated set, one-to-one and onto the created objects, to the object the
\* host created from it.
C10_MappingIsOrigin ==
    [][Succeeds =>
         LET m == locals'.original_to_duplicated
         IN  /\ DOMAIN m = DuplicatedSet(scene)
             /\ {m[o] : o \in DOMAIN m} = Created
             /\ \A o \in DOMAIN m : m[o] \in Created /\ scene'.origin[m[o]] = o]_vars

----------------------------------------------------------------------------
\* The same statements for selections without a selected ancestor: how far
\* C1, C2, C3, C4, C6 and C10 go on the code as it is.

Unnested == Succeeds /\ NoNestedSelection(scene)

UnnestedInvocationsAreCorrect ==
    [][Unnested =>
         /\ \A n \in DuplicatedSet(scene) :
               /\ Flags(scene', n) = Flags(scene, n)
               /\ \E d \in Created : scene'.origin[d] = n
               /\ Flags(scene', CopyOf(n)) = Flags(scene, n)
         /\ scene'.selected = {d \in Created : scene'.origin[d] \in scene.selected}
         /\ locals'.original_selection = filter_selection(scene, selected_objects(scene))
         /\ Cardinality(Created) = Cardinality(DuplicatedSet(scene))
         /\ result'[1] = Len(filter_selection(scene, selected_objects(scene)))
         /\ (scene.active \in DuplicatedSet(scene) =>
               scene'.active \in Created /\ scene'.origin[scene'.active] = scene.active)
         /\ LET m == locals'.original_to_duplicated
            IN  /\ DOMAIN m = DuplicatedSet(scene)
                /\ \A o \in DOMAIN m : m[o] \in Created /\ scene'.origin[m[o]] = o]_vars

====
